------------------------------ MODULE Spec2Model ------------------------------
(***************************************************************************)
(* A model of the digital-garden site generator: the normalisation of a    *)
(* pandoc document into the generator's node tuples (unwrap_block), the    *)
(* rendering of those nodes to HTML (ast_node_to_html) and the table of    *)
(* contents built by ast_to_html, for the two scripts build.py and         *)
(* render.py.                                                              *)
(*                                                                         *)
(* Python strings are sequences of one-character strings, so that          *)
(* escaping, slicing and concatenation are computed as the code computes   *)
(* them.  A Python tuple (node_type, node_attrs) is the TLA+ tuple         *)
(* <<node_type, node_attrs>>; the attribute 'is-todo' is the field is_todo.*)
(* A call that raises returns [exc |-> <exception type>]; a call that      *)
(* returns v returns [exc |-> "", val |-> v].                              *)
(***************************************************************************)
EXTENDS Integers, Sequences, FiniteSets, TLC

VARIABLES script, doc, pc, exc, nodes, i, headings, content, toc, prev_level, j, html

vars == <<script, doc, pc, exc, nodes, i, headings, content, toc, prev_level, j, html>>

-------------------------------------------------------------------------------
(* Bounds of the input documents. *)

\* most top-level headings in a document of the heading family
MaxHeadings == 5
\* deepest heading level in a document of the heading family
MaxLevel == 3
\* most children of an inline container (Strong, Emph, Link, Span)
MaxInner == 2
\* most characters of a literal text of the escaping family
MaxTextLen == 3
\* most children of a heading or paragraph of the generic family
MaxChildren == 2

-------------------------------------------------------------------------------
(* Values returned and exceptions raised. *)

Ok(v) == [exc |-> "", val |-> v]

Raise(e) == [exc |-> e, val |-> <<>>]

Min(S) == CHOOSE x \in S : \A y \in S : x <= y

\* the first exception of a sequence of results, in evaluation order
FirstRaised(rs) == rs[Min({k \in DOMAIN rs : rs[k].exc # ""})]

AnyRaised(rs) == \E k \in DOMAIN rs : rs[k].exc # ""

-------------------------------------------------------------------------------
(* Strings. *)

RECURSIVE Flatten(_)
\* the concatenation of a sequence of strings
Flatten(ss) == IF ss = <<>> THEN <<>> ELSE Head(ss) \o Flatten(Tail(ss))

\* string * k : k copies (none when k <= 0), kept as a sequence of the copies
Rep(piece, k) == [n \in 1..k |-> piece]

\* str.replace(old, new) for a one-character old
Replace(string, old, new) ==
    Flatten([k \in DOMAIN string |-> IF string[k] = old THEN new ELSE <<string[k]>>])

\* string[a:-b] for a, b >= 0
Slice(string, a, b) ==
    IF a + 1 > Len(string) - b THEN <<>> ELSE SubSeq(string, a + 1, Len(string) - b)

Digit(d) == <<"0", "1", "2", "3", "4", "5", "6", "7", "8", "9">>[d + 1]

RECURSIVE NatStr(_)
NatStr(n) == IF n < 10 THEN <<Digit(n)>> ELSE NatStr(n \div 10) \o <<Digit(n % 10)>>

\* the text an f-string gives an int
IntStr(n) == IF n < 0 THEN <<"-">> \o NatStr(0 - n) ELSE NatStr(n)

\* 'x' in list
In(x, list) == \E k \in DOMAIN list : list[k] = x

html_escape_amp_last(string) ==
    Replace(Replace(Replace(string, "<", <<"&", "l", "t", ";">>), ">", <<"&", "g", "t", ";">>), "&", <<"&", "a", "m", "p", ";">>)

html_escape(string) ==
    Replace(Replace(Replace(string, "&", <<"&", "a", "m", "p", ";">>), "<", <<"&", "l", "t", ";">>), ">", <<"&", "g", "t", ";">>)

-------------------------------------------------------------------------------
(* regex_match(r'#\+(\w+):\s+(.+)', string): the groups, or <<>> for None.  *)
(* for ASCII text without line breaks.                                    *)

Uppers == <<"A", "B", "C", "D", "E", "F", "G", "H", "I", "J", "K", "L", "M", "N", "O", "P", "Q", "R", "S", "T", "U", "V", "W", "X", "Y", "Z">>

Lowers == <<"a", "b", "c", "d", "e", "f", "g", "h", "i", "j", "k", "l", "m", "n", "o", "p", "q", "r", "s", "t", "u", "v", "w", "x", "y", "z">>

Range(s) == {s[k] : k \in DOMAIN s}

\* \w, for ASCII text
WordChars == Range(Uppers) \cup Range(Lowers) \cup Range(<<"0", "1", "2", "3", "4", "5", "6", "7", "8", "9", "_">>)

\* \s, for text without tabs and line breaks
SpaceChars == {" "}

\* the longest run of characters of cls starting at position p
RECURSIVE Run(_, _, _)
Run(string, p, cls) ==
    IF p <= Len(string) /\ string[p] \in cls THEN 1 + Run(string, p + 1, cls) ELSE 0

regex_match(string) ==
    IF Len(string) < 2 \/ string[1] # "#" \/ string[2] # "+" THEN <<>>
    ELSE LET w == Run(string, 3, WordChars)
             colon == 3 + w
             s == Run(string, colon + 1, SpaceChars)
             rest == Len(string) - colon - s
         IN  IF w = 0 \/ colon > Len(string) \/ string[colon] # ":" \/ s = 0
             THEN <<>>
             ELSE IF rest > 0
                  THEN <<SubSeq(string, 3, colon - 1),
                         SubSeq(string, colon + s + 1, Len(string))>>
                  \* \s+ gives back its last space to (.+)
                  ELSE IF s >= 2
                       THEN <<SubSeq(string, 3, colon - 1), <<string[Len(string)]>>>>
                       ELSE <<>>

\* str.lower(), for ASCII text
lower(string) ==
    [k \in DOMAIN string |->
        IF string[k] \in Range(Uppers)
        THEN Lowers[CHOOSE n \in DOMAIN Uppers : Uppers[n] = string[k]]
        ELSE string[k]]

-------------------------------------------------------------------------------
(* The normaliser: unwrap_block and unwrap_blocks.  A pandoc element is a  *)
(* record whose field type names its pandoc type; its other fields name    *)
(* the positions the code reads (block[0], block[1][1], ...).              *)

\* build.py line 154: 'todo' in block[0][1] or 'done' in block[0][1]
\* render.py line 100: 'todo' in block[0][1]
is_todo_done_only(source, classes) == In("done", classes)

is_todo(source, classes) ==
    IF source = "build.py"
    THEN In("todo", classes) \/ In("done", classes)
    ELSE In("todo", classes)

\* the two asserts on a Link: block[0] == ('', [], []) and block[2][1] == ''
link_asserts_attr_only(block) == block.attr = <<<<>>, <<>>, <<>>>>

link_asserts(block) == block.attr = <<<<>>, <<>>, <<>>>> /\ block.title = <<>>

\* the promotion of a heading or paragraph whose first child is a marker span,
\* removing the first child instead of replacing it
promote_delete_first(node_type, node_attrs) ==
    LET children == node_attrs.children IN
    IF Len(children) = 0 THEN Raise("AssertionError")
    ELSE LET first_child_type == children[1][1]
             first_child_attrs == children[1][2]
         IN  IF first_child_type = "span" /\ first_child_attrs.is_todo
             THEN Ok(<<"todo-item", [node_attrs EXCEPT !.children = Tail(children)]>>)
             ELSE Ok(<<node_type, node_attrs>>)

\* the promotion of a heading or paragraph whose first child is a marker span:
\* children[0] = first_child_attrs['children'][0] writes into the list that
\* node_attrs holds, so the first child is replaced and the others stay
promote(node_type, node_attrs) ==
    LET children == node_attrs.children IN
    IF Len(children) = 0 THEN Raise("AssertionError")
    ELSE LET first_child_type == children[1][1]
             first_child_attrs == children[1][2]
         IN  IF first_child_type = "span" /\ first_child_attrs.is_todo
             THEN IF Len(first_child_attrs.children) = 0
                  THEN Raise("IndexError")
                  ELSE Ok(<<"todo-item",
                            [node_attrs EXCEPT !.children =
                                <<first_child_attrs.children[1]>> \o Tail(children)]>>)
             ELSE Ok(<<node_type, node_attrs>>)

RECURSIVE unwrap_block(_, _), unwrap_blocks(_, _), unwrap_dispatch(_, _), unwrap_items(_, _)

unwrap_blocks(source, blocks) ==
    LET rs == [k \in DOMAIN blocks |-> unwrap_block(source, blocks[k])] IN
    IF AnyRaised(rs) THEN Raise(FirstRaised(rs).exc)
    ELSE Ok([k \in DOMAIN blocks |-> rs[k].val])

\* the list-item comprehension of an OrderedList
unwrap_items(source, items) ==
    LET rs == [k \in DOMAIN items |-> unwrap_blocks(source, items[k])] IN
    IF AnyRaised(rs) THEN Raise(FirstRaised(rs).exc)
    ELSE Ok([k \in DOMAIN items |-> <<"list-item", [children |-> rs[k].val]>>])

\* the if/elif chain on the pandoc type
unwrap_dispatch(source, block) ==
    CASE block.type = "RawBlock" ->
           IF block.format # "org" THEN Raise("AssertionError")
           ELSE LET matches == regex_match(block.text) IN
                IF matches = <<>> THEN Raise("AssertionError")
                ELSE Ok(<<"org-directive",
                          [type |-> lower(matches[1]), value |-> matches[2]]>>)
      [] block.type = "Header" ->
           IF ~(block.classes = <<>> /\ block.kvs = <<>>) THEN Raise("AssertionError")
           ELSE LET c == unwrap_blocks(source, block.content) IN
                IF c.exc # "" THEN c
                ELSE Ok(<<"heading", [level |-> block.level, children |-> c.val]>>)
      [] block.type = "Para" ->
           LET c == unwrap_blocks(source, block.content) IN
           IF c.exc # "" THEN c ELSE Ok(<<"paragraph", [children |-> c.val]>>)
      [] block.type = "Plain" ->
           LET c == unwrap_blocks(source, block.content) IN
           IF c.exc # "" THEN c ELSE Ok(<<"plain-text", [children |-> c.val]>>)
      [] block.type = "Strong" ->
           LET c == unwrap_blocks(source, block.content) IN
           IF c.exc # "" THEN c ELSE Ok(<<"strong-text", [children |-> c.val]>>)
      [] block.type = "Emph" ->
           LET c == unwrap_blocks(source, block.content) IN
           IF c.exc # "" THEN c ELSE Ok(<<"emphasized-text", [children |-> c.val]>>)
      [] block.type = "OrderedList" ->
           LET c == unwrap_items(source, block.items) IN
           IF c.exc # "" THEN c
           ELSE Ok(<<"ordered-list",
                     [start |-> block.start,
                      style |-> Slice(block.style, 0, 2),
                      delim |-> Slice(block.delim, 0, 2),
                      children |-> c.val]>>)
      [] block.type = "CodeBlock" ->
           IF Len(block.classes) # 1 THEN Raise("AssertionError")
           ELSE Ok(<<"code-block",
                     [name |-> block.id, language |-> block.classes[1],
                      text |-> block.text]>>)
      [] block.type = "Code" ->
           IF ~(block.id = <<>> /\ block.kvs = <<>>) THEN Raise("AssertionError")
           ELSE IF ~(Len(block.classes) = 1 /\ block.classes[1] = "verbatim")
                THEN Raise("AssertionError")
                ELSE Ok(<<"inline-code", [text |-> block.text]>>)
      [] block.type = "Link" ->
           IF ~link_asserts(block) THEN Raise("AssertionError")
           ELSE LET c == unwrap_blocks(source, block.content) IN
                IF c.exc # "" THEN c
                ELSE Ok(<<"link", [children |-> c.val, target |-> block.target]>>)
      [] block.type = "Span" ->
           LET c == unwrap_blocks(source, block.content) IN
           IF c.exc # "" THEN c
           ELSE Ok(<<"span", [is_todo |-> is_todo(source, block.classes),
                              children |-> c.val]>>)
      [] block.type = "Str" -> Ok(<<"string", [text |-> block.text]>>)
      [] block.type = "Space" -> Ok(<<"space", <<>>>>)
      [] block.type = "SoftBreak" -> Ok(<<"soft-break", <<>>>>)
      [] OTHER -> Raise("TypeError")

unwrap_block(source, block) ==
    LET r == unwrap_dispatch(source, block) IN
    IF r.exc # "" THEN r
    ELSE IF r.val[1] = "heading" \/ r.val[1] = "paragraph"
         THEN promote(r.val[1], r.val[2])
         ELSE r

-------------------------------------------------------------------------------
(* The renderer: ast_node_to_html and ast_nodes_to_html.                   *)

\* html += open; html += <the children>; html += close
Wrapped(open, r, close) == IF r.exc # "" THEN r ELSE Ok(open \o r.val \o close)

RECURSIVE ast_node_to_html(_), ast_nodes_to_html(_)

ast_nodes_to_html(ns) ==
    LET rs == [k \in DOMAIN ns |-> ast_node_to_html(ns[k])] IN
    IF AnyRaised(rs) THEN Raise(FirstRaised(rs).exc)
    ELSE Ok(Flatten([k \in DOMAIN ns |-> rs[k].val]))

ast_node_to_html(node) ==
    LET node_type == node[1]
        node_attrs == node[2]
    IN
    CASE node_type = "org-directive" -> Ok(<<>>)
      [] node_type = "todo-item" -> Ok(<<>>)
      [] node_type = "heading" ->
           Wrapped(<<"<", "h">> \o IntStr(node_attrs.level) \o <<">">>,
                   ast_nodes_to_html(node_attrs.children),
                   <<"<", "/", "h">> \o IntStr(node_attrs.level) \o <<">">>)
      [] node_type = "paragraph" ->
           Wrapped(<<"<", "p", ">">>, ast_nodes_to_html(node_attrs.children), <<"<", "/", "p", ">">>)
      [] node_type = "plain-text" ->
           Wrapped(<<>>, ast_nodes_to_html(node_attrs.children), <<>>)
      [] node_type = "strong-text" ->
           Wrapped(<<"<", "s", "t", "r", "o", "n", "g", ">">>, ast_nodes_to_html(node_attrs.children), <<"<", "/", "s", "t", "r", "o", "n", "g", ">">>)
      [] node_type = "emphasized-text" ->
           Wrapped(<<"<", "e", "m", ">">>, ast_nodes_to_html(node_attrs.children), <<"<", "/", "e", "m", ">">>)
      [] node_type = "ordered-list" ->
           Wrapped(<<"<", "o", "l", ">">>, ast_nodes_to_html(node_attrs.children), <<"<", "/", "o", "l", ">">>)
      [] node_type = "list-item" ->
           Wrapped(<<"<", "l", "i", ">">>, ast_nodes_to_html(node_attrs.children), <<"<", "/", "l", "i", ">">>)
      [] node_type = "inline-code" ->
           Ok(<<"<", "c", "o", "d", "e", ">">> \o html_escape(node_attrs.text) \o <<"<", "/", "c", "o", "d", "e", ">">>)
      [] node_type = "code-block" ->
           Ok(<<"<", "f", "i", "g", "u", "r", "e", ">">>
              \o (IF Len(node_attrs.name) > 0
                  THEN <<"<", "f", "i", "g", "c", "a", "p", "t", "i", "o", "n", ">">> \o html_escape(node_attrs.name)
                       \o <<"<", "/", "f", "i", "g", "c", "a", "p", "t", "i", "o", "n", ">">>
                  ELSE <<>>)
              \o <<"<", "p", "r", "e", ">", "<", "c", "o", "d", "e", ">">> \o html_escape(node_attrs.text)
              \o <<"<", "/", "c", "o", "d", "e", ">", "<", "/", "p", "r", "e", ">", "<", "/", "f", "i", "g", "u", "r", "e", ">">>)
      [] node_type = "link" ->
           Wrapped(<<"<", "a", " ", "h", "r", "e", "f", "=", "\"">> \o node_attrs.target \o <<"\"", ">">>,
                   ast_nodes_to_html(node_attrs.children), <<"<", "/", "a", ">">>)
      [] node_type = "string" -> Ok(html_escape(node_attrs.text))
      [] node_type = "space" -> Ok(<<" ">>)
      [] node_type = "soft-break" -> Ok(<<" ">>)
      [] OTHER -> Raise("TypeError")

-------------------------------------------------------------------------------
(* The table of contents of ast_to_html (build.py).  toc is kept as the    *)
(* sequence of the pieces appended to it; the string is Flatten(toc).      *)

TocTitle == <<"<", "h", "1", ">", "T", "a", "b", "l", "e", " ", "o", "f", " ", "C", "o", "n", "t", "e", "n", "t", "s", "<", "/", "h", "1", ">">>

TocOpen == <<"<", "u", "l", ">", "<", "l", "i", ">">>

TocClose == <<"<", "/", "l", "i", ">", "<", "/", "u", "l", ">">>

TocSibling == <<"<", "/", "l", "i", ">", "<", "l", "i", ">">>

\* headings.append((node[1]['level'], node_html[4:-5]))
heading_entry(node, node_html) == <<node[2].level, Slice(node_html, 4, 5)>>

\* the loop body, opening one list level however far the level rises
toc_entry_one_open(level, text, prev) ==
    IF level > prev
    THEN <<TocOpen, text>>
    ELSE (IF level < prev THEN Rep(TocClose, prev - level) ELSE <<>>)
         \o <<TocSibling, text>>

\* the pieces one pass of the loop body appends: lines 192-198
toc_entry(level, text, prev) ==
    IF level > prev
    THEN Rep(TocOpen, level - prev) \o <<text>>
    ELSE (IF level < prev THEN Rep(TocClose, prev - level) ELSE <<>>)
         \o <<TocSibling, text>>

\* closing one level fewer than are open
toc_end_one_short(prev) == Rep(TocClose, prev - 1)

\* toc += '</li></ul>' * prev_level
toc_end(prev) == Rep(TocClose, prev)

-------------------------------------------------------------------------------
(* The pandoc elements the documents are built from: block[0], block[1],   *)
(* ... of each pandoc type, by name.                                       *)

Str(text) == [type |-> "Str", text |-> text]

Space == [type |-> "Space"]

SoftBreak == [type |-> "SoftBreak"]

Code(text) ==
    [type |-> "Code", id |-> <<>>, classes |-> <<"verbatim">>, kvs |-> <<>>, text |-> text]

Strong(inlines) == [type |-> "Strong", content |-> inlines]

Emph(inlines) == [type |-> "Emph", content |-> inlines]

Link(inlines, target, title) ==
    [type |-> "Link", attr |-> <<<<>>, <<>>, <<>>>>, content |-> inlines,
     target |-> target, title |-> title]

Span(classes, inlines) == [type |-> "Span", classes |-> classes, content |-> inlines]

Header(level, inlines) ==
    [type |-> "Header", level |-> level, classes |-> <<>>, kvs |-> <<>>,
     content |-> inlines]

Para(inlines) == [type |-> "Para", content |-> inlines]

Plain(inlines) == [type |-> "Plain", content |-> inlines]

OrderedList(items) ==
    [type |-> "OrderedList", start |-> 1, style |-> <<"D", "e", "c", "i", "m", "a", "l", "(", ")">>,
     delim |-> <<"P", "e", "r", "i", "o", "d", "(", ")">>, items |-> items]

CodeBlock(id, classes, text) ==
    [type |-> "CodeBlock", id |-> id, classes |-> classes, text |-> text]

RawBlock(format, text) == [type |-> "RawBlock", format |-> format, text |-> text]

\* a pandoc type unwrap_block has no branch for
BulletList(items) == [type |-> "BulletList", items |-> items]

-------------------------------------------------------------------------------
(* The documents.                                                          *)

SeqsUpTo(S, n) == UNION {[1..k -> S] : k \in 0..n}

TodoClasses == <<"todo", "TODO">>

DoneClasses == <<"done", "DONE">>

Target == <<"u", ".", "h", "t", "m", "l">>

\* the content of an inline container: the TODO keyword, then words
Inner(n) == [k \in 1..n |-> IF k = 1 THEN Str(<<"T", "O", "D", "O">>) ELSE Str(<<"y">>)]

InnerSeqs == {Inner(n) : n \in 0..MaxInner}

Leaves == {Str(<<"x">>), Space, SoftBreak, Code(<<"a", "<", "b">>)}

Containers ==
    UNION {{Strong(c), Emph(c), Link(c, Target, <<>>), Link(c, Target, <<"t", "i", "p">>),
            Span(<<>>, c), Span(TodoClasses, c), Span(DoneClasses, c)} : c \in InnerSeqs}

Nested ==
    UNION {{Strong(<<w>>), Span(<<>>, <<w>>)} :
              w \in {Span(TodoClasses, Inner(1)), Link(Inner(1), Target, <<"t", "i", "p">>)}}

Inlines == Leaves \cup Containers \cup Nested

\* what follows the first child of a heading or paragraph
Followers == {Str(<<"x">>), Space, Span(TodoClasses, Inner(1))}

ChildSeqs ==
    {<<>>} \cup {<<a>> \o f : a \in Inlines, f \in SeqsUpTo(Followers, MaxChildren - 1)}

\* heading levels inside and outside h1..h6
HeadingLevels == {0, 1, 2, 6, 7, 10}

Intro == Str(<<"I", "n", "t", "r", "o">>)

HelloWorld == Para(<<Str(<<"H", "e", "l", "l", "o", " ">>), Strong(<<Str(<<"w", "o", "r", "l", "d">>)>>)>>)

OtherBlocks ==
    {[Header(1, <<Intro>>) EXCEPT !.classes = <<"title">>],
     OrderedList(<<<<Plain(<<Str(<<"x">>)>>)>>, <<Para(<<Str(<<"y">>), Space>>)>>>>),
     OrderedList(<<<<Plain(<<Span(TodoClasses, Inner(1)), Str(<<"x">>)>>)>>>>),
     OrderedList(<<>>),
     CodeBlock(<<"e", "x", "a", "m", "p", "l", "e", ".", "p", "y">>, <<"python">>, <<"a", "<", "b">>),
     CodeBlock(<<>>, <<"python">>, <<"a", "&", "b">>),
     CodeBlock(<<>>, <<>>, <<"x">>),
     RawBlock("org", <<"#", "+", "T", "I", "T", "L", "E", ":", " ", "a", " ", "b">>),
     RawBlock("org", <<"#", "+", "x", ":", " ", " ">>),
     RawBlock("org", <<"#", "+", "x", ":", " ">>),
     RawBlock("org", <<"#", " ", "x">>),
     RawBlock("html", <<"<", "b", ">">>),
     Para(<<[Code(<<"x">>) EXCEPT !.classes = <<"python">>]>>),
     BulletList(<<<<Plain(<<Str(<<"x">>)>>)>>>>)}

GenericBlocks ==
    UNION {{Header(1, c), Para(c), Plain(c)} : c \in ChildSeqs} \cup OtherBlocks

PairBlocks ==
    {Header(l, <<Intro>>) : l \in HeadingLevels}
    \cup {HelloWorld,
          RawBlock("org", <<"#", "+", "T", "I", "T", "L", "E", ":", " ", "a", " ", "b">>),
          Header(1, <<Span(TodoClasses, Inner(1)), Space, Str(<<"x">>)>>),
          Para(<<Str(<<"x">>), Span(<<>>, Inner(1))>>),
          Header(3, <<Emph(<<Str(<<"a", "&", "b">>)>>), Space, Code(<<"a", "<", "b">>)>>)}

GenericDocs ==
    {<<b>> : b \in GenericBlocks} \cup {<<a, b>> : a \in PairBlocks, b \in PairBlocks}

HeadingDocs ==
    {[k \in DOMAIN ls |-> Header(ls[k], <<Str(<<"x">>)>>)] :
        ls \in SeqsUpTo(1..MaxLevel, MaxHeadings)}

EscChars == {"a", "&", "<", ">"}

\* the literal text of the specification's escaping example
EscExample == <<"a", " ", "&", " ", "b", " ", "<", " ", "c", " ", ">", " ", "d">>

EscTexts == (SeqsUpTo(EscChars, MaxTextLen) \ {<<>>}) \cup {EscExample, <<"&", "a", "m", "p", ";">>}

EscapeDocs ==
    UNION {{<<Para(<<Str(t)>>)>>,
            <<Header(2, <<Strong(<<Str(t)>>)>>)>>,
            <<Para(<<Link(<<Emph(<<Strong(<<Str(t)>>)>>)>>, Target, <<>>)>>)>>,
            <<OrderedList(<<<<Plain(<<Str(t)>>)>>, <<Para(<<Emph(<<Str(t)>>)>>)>>>>)>>,
            <<Para(<<Code(t)>>), CodeBlock(t, <<"python">>, t)>>} : t \in EscTexts}

-------------------------------------------------------------------------------
(* The two scripts, a document at a time.                                  *)

Init ==
    /\ \/ script = "build.py" /\ doc \in HeadingDocs \cup GenericDocs \cup EscapeDocs
       \/ script = "render.py" /\ doc \in GenericDocs
    /\ pc = "parse"
    /\ exc = ""
    /\ nodes = <<>>
    /\ i = 1
    /\ headings = <<>>
    /\ content = <<>>
    /\ toc = <<>>
    /\ prev_level = 0
    /\ j = 1
    /\ html = <<>>

\* parse_org_file: nodes = unwrap_blocks(ast[1]); an exception ends the script
ParseOrgFile ==
    /\ pc = "parse"
    /\ LET r == unwrap_blocks(script, doc) IN
       IF r.exc # ""
       THEN pc' = "crashed" /\ exc' = r.exc /\ nodes' = nodes
       ELSE pc' = "render" /\ exc' = exc /\ nodes' = r.val
    /\ UNCHANGED <<script, doc, i, headings, content, toc, prev_level, j, html>>

\* build.py ast_to_html, one pass of the loop over ast.nodes
RenderNode ==
    /\ pc = "render"
    /\ script = "build.py"
    /\ i <= Len(nodes)
    /\ LET node == nodes[i]
           r == ast_node_to_html(node)
       IN  IF r.exc # ""
           THEN pc' = "crashed" /\ exc' = r.exc
                /\ UNCHANGED <<i, headings, content>>
           ELSE /\ headings' = IF node[1] = "heading"
                               THEN Append(headings, heading_entry(node, r.val))
                               ELSE headings
                /\ content' = content \o r.val
                /\ i' = i + 1
                /\ UNCHANGED <<pc, exc>>
    /\ UNCHANGED <<script, doc, nodes, toc, prev_level, j, html>>

\* build.py ast_to_html: the loop over ast.nodes is over; toc and prev_level are set
StartToc ==
    /\ pc = "render"
    /\ script = "build.py"
    /\ i > Len(nodes)
    /\ toc' = <<TocTitle>>
    /\ prev_level' = 0
    /\ j' = 1
    /\ pc' = "toc"
    /\ UNCHANGED <<script, doc, exc, nodes, i, headings, content, html>>

\* build.py ast_to_html, one pass of the loop over headings
TocEntry ==
    /\ pc = "toc"
    /\ j <= Len(headings)
    /\ LET level == headings[j][1]
           text == headings[j][2]
       IN  /\ toc' = toc \o toc_entry(level, text, prev_level)
           /\ prev_level' = level
    /\ j' = j + 1
    /\ UNCHANGED <<script, doc, pc, exc, nodes, i, headings, content, html>>

\* build.py ast_to_html: the closing of the open levels, and the page content
FinishToc ==
    /\ pc = "toc"
    /\ j > Len(headings)
    /\ toc' = toc \o toc_end(prev_level)
    /\ html' = <<"<", "d", "i", "v", " ", "i", "d", "=", "\"", "t", "a", "b", "l", "e", "-", "o", "f", "-", "c", "o", "n", "t", "e", "n", "t", "s", "\"", ">">> \o Flatten(toc') \o <<"<", "/", "d", "i", "v", ">">>
               \o <<"<", "d", "i", "v", " ", "i", "d", "=", "\"", "c", "o", "n", "t", "e", "n", "t", "\"", ">">> \o content \o <<"<", "/", "d", "i", "v", ">">>
    /\ pc' = "done"
    /\ UNCHANGED <<script, doc, exc, nodes, i, headings, content, prev_level, j>>

\* render.py ast_to_html
RenderAll ==
    /\ pc = "render"
    /\ script = "render.py"
    /\ LET r == ast_nodes_to_html(nodes) IN
       IF r.exc # ""
       THEN pc' = "crashed" /\ exc' = r.exc /\ html' = html
       ELSE pc' = "done" /\ exc' = exc
            /\ html' = <<"<", "d", "i", "v", " ", "i", "d", "=", "\"", "c", "o", "n", "t", "e", "n", "t", "\"", ">">> \o r.val \o <<"<", "/", "d", "i", "v", ">">>
    /\ UNCHANGED <<script, doc, nodes, i, headings, content, toc, prev_level, j>>

Next ==
    \/ ParseOrgFile
    \/ RenderNode
    \/ StartToc
    \/ TocEntry
    \/ FinishToc
    \/ RenderAll

Spec == Init /\ [][Next]_vars

-------------------------------------------------------------------------------
(* Properties of the normaliser, the renderer and the table of contents.   *)

\* every pandoc element of a sequence of elements, at any depth
RECURSIVE Elements(_)
Elements(blocks) ==
    UNION {{b}
           \cup (IF "content" \in DOMAIN b THEN Elements(b.content) ELSE {})
           \cup (IF "items" \in DOMAIN b
                 THEN UNION {Elements(item) : item \in Range(b.items)}
                 ELSE {}) : b \in Range(blocks)}

\* every node of a sequence of nodes, at any depth
RECURSIVE NodeElements(_)
NodeElements(ns) ==
    UNION {{n} \cup (IF "children" \in DOMAIN n[2]
                     THEN NodeElements(n[2].children) ELSE {}) : n \in Range(ns)}

RecognizedTypes ==
    {"RawBlock", "Header", "Para", "Plain", "Strong", "Emph", "OrderedList",
     "CodeBlock", "Code", "Link", "Span", "Str", "Space", "SoftBreak"}

\* the document was normalised: parse_org_file returned
Parsed == pc # "parse" /\ unwrap_blocks(script, doc).exc = ""

\* build.py has rendered every top-level node
Rendered == script = "build.py" /\ pc \in {"toc", "done"}

X == <<"x">>

Opens(ps) == Cardinality({p \in DOMAIN ps : ps[p] = TocOpen})

Closes(ps) == Cardinality({p \in DOMAIN ps : ps[p] = TocClose})

\* C1: for heading levels that are all >= 1 the table of contents is a
\* well-formed nested list: no prefix of the emitted pieces closes more list
\* levels than it opened, right after an entry is emitted the number of open
\* levels is that entry's level, and at the end every opened level is closed.
C1_TocWellFormed ==
    (Rendered /\ \A k \in DOMAIN headings : headings[k][1] >= 1) =>
        /\ \A n \in 0..Len(toc) :
              Closes(SubSeq(toc, 1, n)) <= Opens(SubSeq(toc, 1, n))
        /\ (pc = "toc" /\ j > 1) => Opens(toc) - Closes(toc) = headings[j - 1][1]
        /\ pc = "done" => Opens(toc) = Closes(toc)

\* levels 1, 3, 1: a skipped level, then a fall of two
C1_Witness ==
    /\ pc = "done"
    /\ [k \in DOMAIN headings |-> headings[k][1]] = <<1, 3, 1>>
    /\ toc = <<TocTitle, TocOpen, X, TocOpen, TocOpen, X,
               TocClose, TocClose, TocSibling, X, TocClose>>

TocMarkup == {TocTitle, TocOpen, TocClose, TocSibling}

\* the positions of the entry texts among the pieces of the table of contents
EntryPos(ps) == {p \in DOMAIN ps : ps[p] \notin TocMarkup}

\* the position of the k-th entry text; the title, at position 1, for k = 0
KthPos(ps, k) ==
    IF k = 0 THEN 1
    ELSE CHOOSE p \in EntryPos(ps) : Cardinality({q \in EntryPos(ps) : q <= p}) = k

\* C2: when an entry's level is greater than the level before it (0 before the
\* first entry), exactly level - previous '<ul><li>' pieces and nothing else lie
\* between the previous entry's text (the title for the first entry) and this
\* entry's text; a single entry of level l is preceded by l opens and followed
\* by exactly l closes.
C2_OpensOnDeeperLevel ==
    Rendered =>
        /\ Cardinality(EntryPos(toc)) = j - 1
        /\ \A k \in 1..(j - 1) :
              LET level == headings[k][1]
                  prev == IF k = 1 THEN 0 ELSE headings[k - 1][1]
              IN  /\ toc[KthPos(toc, k)] = headings[k][2]
                  /\ level > prev =>
                        SubSeq(toc, KthPos(toc, k - 1) + 1, KthPos(toc, k) - 1)
                            = Rep(TocOpen, level - prev)
        /\ (pc = "done" /\ Len(headings) = 1 /\ headings[1][1] >= 1) =>
              toc = <<TocTitle>> \o Rep(TocOpen, headings[1][1])
                    \o <<headings[1][2]>> \o Rep(TocClose, headings[1][1])

C2_Witness ==
    /\ pc = "done"
    /\ [k \in DOMAIN headings |-> headings[k][1]] = <<1, 3, 3, 2, 1>>
    /\ toc = <<TocTitle, TocOpen, X, TocOpen, TocOpen, X, TocSibling, X,
               TocClose, TocSibling, X, TocClose, TocSibling, X, TocClose>>

\* C3: a document built only from the pandoc types unwrap_block recognises is
\* normalised and rendered without the TypeError of an unhandled kind.
C3_NoUnhandledKind ==
    (\A b \in Elements(doc) : b.type \in RecognizedTypes) => exc # "TypeError"

\* C4: an 'org-directive' node and a 'span' node each render to the empty
\* string, and the entries of the table of contents are those of the top-level
\* headings alone.
C4_DirectiveAndSpanRenderEmpty ==
    Parsed =>
        /\ \A n \in NodeElements(nodes) :
              n[1] \in {"org-directive", "span"} => ast_node_to_html(n) = Ok(<<>>)
        /\ script = "build.py" /\ pc # "crashed" =>
              Len(headings) = Cardinality({k \in 1..(i - 1) : nodes[k][1] = "heading"})

\* the first child of a heading or paragraph is a span with one of the classes
FirstIsSpanWith(block, classes) ==
    /\ Len(block.content) > 0
    /\ block.content[1].type = "Span"
    /\ \E c \in classes : In(c, block.content[1].classes)

RECURSIVE IsInfix(_, _)
\* sub occurs in string
IsInfix(sub, string) ==
    IF Len(sub) > Len(string) THEN FALSE
    ELSE SubSeq(string, 1, Len(sub)) = sub \/ IsInfix(sub, Tail(string))

\* C5 as the specification states it: a heading whose first child is a span
\* tagged "todo" becomes a 'todo-item' whose rendered output leaves out the
\* marker span's text and includes the rendering of the children after it.
C5_TodoItemRendersRest ==
    Parsed =>
        \A k \in DOMAIN doc :
            (doc[k].type = "Header" /\ FirstIsSpanWith(doc[k], {"todo"})) =>
                LET out == ast_node_to_html(nodes[k])
                    marker == ast_nodes_to_html(
                                  unwrap_blocks(script, doc[k].content[1].content).val)
                    rest == ast_nodes_to_html(
                                  unwrap_blocks(script, Tail(doc[k].content)).val)
                IN  /\ nodes[k][1] = "todo-item"
                    /\ out.exc = ""
                    /\ (marker.exc = "" /\ marker.val # <<>>) =>
                          ~IsInfix(marker.val, out.val)
                    /\ rest.exc = "" => IsInfix(rest.val, out.val)

\* C5, amended: a heading whose first child is a span tagged "todo" becomes a
\* 'todo-item' (the span must have a child: with none, normalising raises
\* IndexError), and a 'todo-item' renders to the empty string, the children
\* after the marker included; it adds nothing to the content or the headings.
C5_TodoItemRendersEmpty ==
    /\ Parsed =>
          \A k \in DOMAIN doc :
              (doc[k].type = "Header" /\ FirstIsSpanWith(doc[k], {"todo"})) =>
                  /\ nodes[k][1] = "todo-item"
                  /\ ast_node_to_html(nodes[k]) = Ok(<<>>)
                  /\ (script = "build.py" /\ pc = "render" /\ i = k + 1) =>
                        /\ content = ast_nodes_to_html(SubSeq(nodes, 1, k - 1)).val
                        /\ (k = 1 => headings = <<>>)
    /\ (pc # "parse" /\ Len(doc) = 1 /\ doc[1].type = "Header"
        /\ FirstIsSpanWith(doc[1], {"todo"}) /\ doc[1].content[1].content = <<>>
        /\ doc[1].classes = <<>>
        /\ unwrap_blocks(script, doc[1].content).exc = "") =>
          pc = "crashed" /\ exc = "IndexError"

C5_Witness ==
    /\ script = "build.py"
    /\ pc = "done"
    /\ doc = <<Header(1, <<Span(TodoClasses, Inner(1)), Space, Str(X)>>), HelloWorld>>
    /\ nodes[1] = <<"todo-item",
                    [level |-> 1,
                     children |-> <<<<"string", [text |-> <<"T", "O", "D", "O">>]>>,
                                    <<"space", <<>>>>,
                                    <<"string", [text |-> X]>>>>]>>
    /\ headings = <<>>
    /\ content = <<"<", "p", ">", "H", "e", "l", "l", "o", " ", "<", "s", "t", "r", "o", "n", "g", ">", "w", "o", "r", "l", "d", "<", "/", "s", "t", "r", "o", "n", "g", ">", "<", "/", "p", ">">>

\* C6: a top-level heading whose level is outside 1..6 is never rendered: the
\* loop of ast_to_html does not get past it.
C6_LevelOutOfRangeFails ==
    (script = "build.py" /\ pc \in {"render", "toc", "done"}) =>
        \A k \in 1..(i - 1) :
            nodes[k][1] = "heading" => nodes[k][2].level \in 1..6

\* one character, escaped
EscapeChar(c) ==
    CASE c = "&" -> <<"&", "a", "m", "p", ";">>
      [] c = "<" -> <<"&", "l", "t", ";">>
      [] c = ">" -> <<"&", "g", "t", ";">>
      [] OTHER -> <<c>>

\* a text with each of its characters escaped once
EscapeOnce(text) == Flatten([k \in DOMAIN text |-> EscapeChar(text[k])])

\* whether position p of a rendered string lies in a tag: after a '<' that no
\* '>' has closed before p
InTag(string, p) ==
    \E q \in 1..p : string[q] = "<" /\ \A r \in q..(p - 1) : string[r] # ">"

\* the rendered text with its tags, each from a '<' to the next '>', taken out
StripTags(string) ==
    LET kept == {p \in DOMAIN string : ~InTag(string, p)}
        Nth(n) == CHOOSE p \in kept : Cardinality({q \in kept : q <= p}) = n
    IN  [n \in 1..Cardinality(kept) |-> string[Nth(n)]]

\* the literal text of a document in document order, each literal escaped once
RECURSIVE LeafText(_)
LeafText(blocks) ==
    Flatten([k \in DOMAIN blocks |->
        LET b == blocks[k] IN
        CASE b.type = "Str" -> EscapeOnce(b.text)
          [] b.type = "Code" -> EscapeOnce(b.text)
          [] b.type = "CodeBlock" -> EscapeOnce(b.id) \o EscapeOnce(b.text)
          [] b.type \in {"Space", "SoftBreak"} -> <<" ">>
          [] b.type = "OrderedList" ->
               Flatten([n \in DOMAIN b.items |-> LeafText(b.items[n])])
          [] b.type = "RawBlock" -> <<>>
          [] OTHER -> LeafText(b.content)])

\* C7: whatever the nesting, the text of the rendered page is the literal text
\* of the document with each '&', '<' and '>' escaped exactly once and every
\* other character unchanged ('todo-item' nodes, which render nothing, aside).
C7_EscapedExactlyOnce ==
    /\ (Rendered /\ \A n \in NodeElements(nodes) : n[1] # "todo-item") =>
          StripTags(content) = LeafText(doc)
    /\ (script = "render.py" /\ pc = "done"
        /\ \A n \in NodeElements(nodes) : n[1] # "todo-item") =>
          StripTags(html) = LeafText(doc)

C7_Witness ==
    /\ pc = "done"
    /\ doc = <<Para(<<Link(<<Emph(<<Strong(<<Str(EscExample)>>)>>)>>, Target, <<>>)>>)>>
    /\ content = <<"<", "p", ">", "<", "a", " ", "h", "r", "e", "f", "=", "\"", "u", ".", "h", "t", "m", "l", "\"", ">", "<", "e", "m", ">", "<", "s", "t", "r", "o", "n", "g", ">", "a", " ", "&", "a", "m", "p", ";", " ", "b", " ", "&", "l", "t", ";", " ", "c", " ", "&", "g", "t", ";", " ", "d", "<", "/", "s", "t", "r", "o", "n", "g", ">", "<", "/", "e", "m", ">", "<", "/", "a", ">", "<", "/", "p", ">">>

\* a document with the title of each of its links emptied
RECURSIVE ClearTitles(_)
ClearTitles(blocks) ==
    [k \in DOMAIN blocks |->
        LET b == blocks[k]
            c == IF "content" \in DOMAIN b
                 THEN [b EXCEPT !.content = ClearTitles(b.content)]
                 ELSE IF "items" \in DOMAIN b
                      THEN [b EXCEPT !.items =
                               [n \in DOMAIN b.items |-> ClearTitles(b.items[n])]]
                      ELSE b
        IN  IF b.type = "Link" THEN [c EXCEPT !.title = <<>>] ELSE c]

TitledLinks == {b \in Elements(doc) : b.type = "Link" /\ b.title # <<>>}

\* C8 as the specification states it: a link with a non-empty title is
\* normalised, the title ignored, to the nodes the same document gives with the
\* titles empty.
C8_TitledLinkNormalizes ==
    pc # "parse" =>
        LET r == unwrap_blocks(script, ClearTitles(doc)) IN
        r.exc = "" => nodes = r.val

\* C8, amended: normalising a link whose title is not empty raises
\* AssertionError, and a document that holds one is not normalised; a link
\* with an empty title and empty attributes, whose children normalise, gives
\* the 'link' node of its target, copied, and its normalised children.
C8_TitledLinkRaises ==
    /\ \A b \in TitledLinks : unwrap_block(script, b) = Raise("AssertionError")
    /\ (pc # "parse" /\ TitledLinks # {}) =>
          pc = "crashed" /\ nodes = <<>> /\ exc \in {"AssertionError", "IndexError", "TypeError"}
    /\ (pc # "parse" /\ Len(doc) = 1 /\ doc[1].type = "Para" /\ Len(doc[1].content) = 1
        /\ doc[1].content[1].type = "Link") =>
          LET b == doc[1].content[1]
              c == unwrap_blocks(script, b.content)
          IN  IF b.title # <<>>
              THEN pc = "crashed" /\ exc = "AssertionError"
              ELSE nodes = <<<<"paragraph",
                               [children |-> <<<<"link", [children |-> c.val,
                                                          target |-> b.target]>>>>]>>>>

C8_Witness ==
    /\ pc = "crashed"
    /\ exc = "AssertionError"
    /\ doc = <<Para(<<Link(Inner(1), Target, <<"t", "i", "p">>)>>)>>
    /\ nodes = <<>>

\* the (level, text) pairs of the headings among the first n nodes, the text
\* being the rendering of the heading's children
RECURSIVE HeadingPairs(_, _)
HeadingPairs(ns, n) ==
    IF n = 0 THEN <<>>
    ELSE HeadingPairs(ns, n - 1)
         \o (IF ns[n][1] = "heading"
             THEN <<<<ns[n][2].level, ast_nodes_to_html(ns[n][2].children).val>>>>
             ELSE <<>>)

\* C9: the recorded headings are the (level, text) pairs of the top-level
\* heading nodes rendered so far, in document order, the text being exactly
\* the rendering of the heading's children.
C9_HeadingsRecorded ==
    (script = "build.py" /\ pc \in {"render", "toc", "done"}) =>
        headings = HeadingPairs(nodes, i - 1)

\* the normalised children of a top-level heading or paragraph
NormalChildren(block) == unwrap_blocks(script, block.content).val

===============================================================================
